---- MODULE Spec2Model ----
(***************************************************************************)
(* A model of js/main.js: the API client functions, the DOM builders, the  *)
(* render orchestrator and the event wiring.  Every action runs one        *)
(* handler from one network suspension to the next: the continuations of   *)
(* a resolved fetch run as microtasks, which the event loop drains before  *)
(* it takes the next task, so no other handler or click interleaves        *)
(* between two awaits that do not wait for the network.                    *)
(***************************************************************************)
EXTENDS Integers, Sequences, FiniteSets

(* ------------------------------ bounds -------------------------------- *)

\* invocations of selectMenuChangeEventHandler in one behaviour
MaxRuns == 2
\* users known to the remote API, ids 1..MaxUser
MaxUser == 3
\* posts of the user with the most posts
PostsPerUser == 2
\* comments of the post with the most comments
MaxComments == 1
\* direct calls of the API client functions recorded in calls
MaxCalls == 2

\* the fallback user id of selectMenuChangeEventHandler
FallbackUserId == 1

Runs == 1..MaxRuns
Users == 1..MaxUser

(* --------------------------- JavaScript values ------------------------ *)

Undefined == [tag |-> "undefined"]
Null == [tag |-> "null"]
Value(v) == [tag |-> "value", val |-> v]
\* JavaScript truthiness of a fetch result: undefined and null are falsy,
\* an array (the empty one too) and an object are truthy
Truthy(x) == x.tag = "value"

Digit == <<"0", "1", "2", "3", "4", "5", "6", "7", "8", "9">>
RECURSIVE ToString(_)
\* String(n), as the dataset setter, the template literals and option.value
\* convert a number
ToString(n) == IF n < 10 THEN Digit[n + 1] ELSE ToString(n \div 10) \o Digit[(n % 10) + 1]

NaN == [tag |-> "NaN"]
\* parseInt on the strings a select value can be here: a decimal numeral
\* parses to its number, anything else (the empty string, undefined) to NaN
ParseInt(s) ==
    IF \E n \in 0..(MaxUser + 1) : ToString(n) = s
    THEN [tag |-> "int", val |-> CHOOSE n \in 0..(MaxUser + 1) : ToString(n) = s]
    ELSE NaN

(* ------------------------------ remote API ---------------------------- *)

\* user 1 has PostsPerUser posts, the other users with an odd id have one
\* post and the users with an even id have none
NumPosts(u) == IF u = 1 THEN PostsPerUser ELSE u % 2
PostId(u, j) == (u - 1) * PostsPerUser + j
NumComments(p) == p % (MaxComments + 1)

ServerUser(u) ==
    [id |-> u, name |-> <<"name", u>>,
     company |-> [name |-> <<"company", u>>, catchPhrase |-> <<"phrase", u>>]]
ServerUsers == [u \in Users |-> ServerUser(u)]
ServerPosts(u) ==
    [j \in 1..NumPosts(u) |->
        [id |-> PostId(u, j), userId |-> u,
         title |-> <<"title", PostId(u, j)>>, body |-> <<"body", PostId(u, j)>>]]
ServerComments(p) ==
    [k \in 1..NumComments(p) |->
        [postId |-> p, name |-> <<"cname", p, k>>, body |-> <<"cbody", p, k>>,
         email |-> <<"email", p, k>>]]

\* how one request ends: a 2xx response with a JSON body, a rejected fetch,
\* a response whose ok is false, a 2xx response whose body does not parse
Outcomes == {"ok", "neterr", "non2xx", "badjson"}

\* TryFetch without the check of response.ok: the body of an unsuccessful
\* response is parsed and returned
TryFetch_NoOkCheck(payload, outcome) ==
    IF outcome \in {"neterr", "badjson"}
    THEN [ret |-> Null, requested |-> TRUE, logged |-> TRUE, raised |-> FALSE]
    ELSE [ret |-> Value(payload), requested |-> TRUE, logged |-> FALSE, raised |-> FALSE]

\* the try block shared by the four fetch functions: fetch rejects, or
\* !response.ok throws, or response.json() rejects, and the catch logs and
\* returns null; otherwise the parsed payload is returned
TryFetch(payload, outcome) ==
    IF outcome = "neterr" THEN [ret |-> Null, requested |-> TRUE, logged |-> TRUE, raised |-> FALSE]
    ELSE IF outcome = "non2xx" THEN [ret |-> Null, requested |-> TRUE, logged |-> TRUE, raised |-> FALSE]
    ELSE IF outcome = "badjson" THEN [ret |-> Null, requested |-> TRUE, logged |-> TRUE, raised |-> FALSE]
    ELSE [ret |-> Value(payload), requested |-> TRUE, logged |-> FALSE, raised |-> FALSE]

NoRequest == [ret |-> Undefined, requested |-> FALSE, logged |-> FALSE, raised |-> FALSE]

getUsers(outcome) == TryFetch(ServerUsers, outcome)

getUserPosts(userId, outcome) ==
    IF userId = Undefined THEN NoRequest ELSE TryFetch(ServerPosts(userId.val), outcome)

getUser(userId, outcome) ==
    IF userId = Undefined THEN NoRequest ELSE TryFetch(ServerUser(userId.val), outcome)

getPostComments(postId, outcome) ==
    IF postId = Undefined THEN NoRequest ELSE TryFetch(ServerComments(postId.val), outcome)

(* ------------------------------ DOM builders -------------------------- *)

createElemWithText(elem, text, className) ==
    [tag |-> elem, textContent |-> text, className |-> className]

createSelectOptions(users) ==
    IF ~Truthy(users) THEN Undefined
    ELSE Value([k \in 1..Len(users.val) |->
                  [value |-> ToString(users.val[k].id), textContent |-> users.val[k].name]])

createComments(comments) ==
    IF ~Truthy(comments) THEN Undefined
    ELSE Value([k \in 1..Len(comments.val) |->
                  [tag |-> "article",
                   h3 |-> createElemWithText("h3", comments.val[k].name, ""),
                   pBody |-> createElemWithText("p", comments.val[k].body, ""),
                   pEmail |-> createElemWithText("p", <<"From: ", comments.val[k].email>>, "")]])

\* the section displayComments creates before it awaits the comments
NewSection(postId) ==
    [tag |-> "section", postId |-> ToString(postId), classList |-> {"comments", "hide"},
     children |-> <<>>]

\* the button createPosts creates: no click listener yet
NewButton(postId) ==
    [tag |-> "button", textContent |-> "Show Comments", postId |-> ToString(postId),
     listeners |-> 0]

\* the article of createPosts once the author is known; the section is
\* appended after displayComments returns
NewArticle(run, post, author) ==
    [tag |-> "article", owner |-> run,
     h2 |-> createElemWithText("h2", post.title, ""),
     pBody |-> createElemWithText("p", post.body, ""),
     pPostId |-> createElemWithText("p", "Post ID: " \o ToString(post.id), ""),
     pAuthor |-> createElemWithText("p",
                   <<"Author: ", author.name, " with ", author.company.name>>, ""),
     pCatchPhrase |-> createElemWithText("p", author.company.catchPhrase, ""),
     button |-> NewButton(post.id),
     section |-> Undefined]

DefaultText ==
    createElemWithText("p", "Select an Employee to display their posts.", "default-text")

IsArticle(node) == node.tag = "article"

(* ------------------------------ event wiring -------------------------- *)

\* the positions of the nodes of doc that match sel[data-post-id='postId'],
\* in document order; querySelector takes the first
Matches(doc, sel, postId) ==
    {i \in 1..Len(doc) : IsArticle(doc[i]) /\
        (IF sel = "section" THEN doc[i].section.postId ELSE doc[i].button.postId) = postId}
First(S) == CHOOSE i \in S : \A j \in S : i <= j

\* toggleCommentSection with the selector 'section', which ignores the
\* post id: the first section of the document is toggled
toggleCommentSection_AnySection(doc, postId) ==
    IF postId = Undefined THEN doc
    ELSE LET S == {i \in 1..Len(doc) : IsArticle(doc[i])} IN
         IF S = {} THEN doc
         ELSE LET i == First(S)
                  cl == doc[i].section.classList
              IN [doc EXCEPT ![i].section.classList =
                     IF "hide" \in cl THEN cl \ {"hide"} ELSE cl \cup {"hide"}]

toggleCommentSection(doc, postId) ==
    IF postId = Undefined THEN doc
    ELSE LET S == Matches(doc, "section", postId.val) IN
         IF S = {} THEN doc
         ELSE LET i == First(S)
                  cl == doc[i].section.classList
              IN [doc EXCEPT ![i].section.classList =
                     IF "hide" \in cl THEN cl \ {"hide"} ELSE cl \cup {"hide"}]

\* toggleCommentButton that only ever sets the label 'Hide Comments'
toggleCommentButton_OneWay(doc, postId) ==
    IF postId = Undefined THEN doc
    ELSE LET S == Matches(doc, "button", postId.val) IN
         IF S = {} THEN doc
         ELSE [doc EXCEPT ![First(S)].button.textContent = "Hide Comments"]

toggleCommentButton(doc, postId) ==
    IF postId = Undefined THEN doc
    ELSE LET S == Matches(doc, "button", postId.val) IN
         IF S = {} THEN doc
         ELSE LET i == First(S) IN
              [doc EXCEPT ![i].button.textContent =
                  IF doc[i].button.textContent = "Show Comments"
                  THEN "Hide Comments" ELSE "Show Comments"]

\* toggleComments(event, postId).  The assignment event.target.listener =
\* true sets a property of the clicked button that nothing reads; the
\* button of the model does not carry it
toggleComments(doc, event, postId) ==
    IF event = Undefined \/ postId = Undefined THEN doc
    ELSE toggleCommentButton(toggleCommentSection(doc, postId), postId)

\* a click dispatched to the button at position target runs each of its n
\* listeners in turn, each with the post id its closure holds
RECURSIVE Dispatch(_, _, _)
Dispatch(doc, target, n) ==
    IF n = 0 THEN doc
    ELSE Dispatch(toggleComments(doc, Value(target), Value(doc[target].button.postId)),
                  target, n - 1)

\* button.addEventListener('click', closure): one more listener
addEventListener(button) == [button EXCEPT !.listeners = @ + 1]
\* button.removeEventListener('click', closure) with a closure created in
\* the call: it is none of the button's listeners, so none is removed
removeEventListener(button) == button

addButtonListeners(doc) ==
    [i \in 1..Len(doc) |->
        IF IsArticle(doc[i]) /\ doc[i].button.postId # ""
        THEN [doc[i] EXCEPT !.button = addEventListener(@)] ELSE doc[i]]

removeButtonListeners(doc) ==
    [i \in 1..Len(doc) |->
        IF IsArticle(doc[i]) /\ doc[i].button.postId # ""
        THEN [doc[i] EXCEPT !.button = removeEventListener(@)] ELSE doc[i]]

\* removes the children one by one from the last one on
deleteChildElements(doc) == <<>>

\* appendChild as replaceChildren: the earlier children are dropped
appendChild_Replace(parent, element) == element
\* appendChild as prepend: the element becomes the first child
appendChild_Prepend(parent, element) == element \o parent

\* parent.appendChild(element): the element, or the children of the
\* fragment, become the last children of parent
appendChild(parent, element) == parent \o element

(* -------------------------------- state ------------------------------- *)

VARIABLES
    pcInit,      \* initPage: "awaitUsers" or "done"
    selectMenu,  \* the selector: its options and its disabled flag
    main,        \* the children of <main>, in document order
    pc,          \* each handler invocation's position
    loc,         \* each handler invocation's locals
    calls        \* the direct calls of the API client functions, with results

vars == <<pcInit, selectMenu, main, pc, loc, calls>>

NoLocals == [tag |-> "none"]
InFlight == {"awaitPosts", "awaitAuthor", "awaitComments"}

\* after DOMContentLoaded: initApp has called initPage, which awaits the
\* users, and has attached selectMenuChangeEventHandler to the selector
Init ==
    /\ pcInit = "awaitUsers"
    /\ selectMenu = [options |-> <<>>, disabled |-> FALSE]
    /\ main = <<DefaultText>>
    /\ pc = [r \in Runs |-> "idle"]
    /\ loc = [r \in Runs |-> NoLocals]
    /\ calls = <<>>

(* ------------------------------ initial load -------------------------- *)

populateSelectMenu(menu, users) ==
    IF ~Truthy(users) THEN menu
    ELSE [menu EXCEPT !.options = @ \o createSelectOptions(users).val]

InitPage(outcome) ==
    /\ pcInit = "awaitUsers"
    /\ selectMenu' = populateSelectMenu(selectMenu, getUsers(outcome).ret)
    /\ pcInit' = "done"
    /\ UNCHANGED <<main, pc, loc, calls>>

(* --------------------------- render orchestrator ---------------------- *)

\* the events the handler is called with: a change event of the selector,
\* whose value is an option's or the empty string, and, when the handler is
\* called directly, no event or an event without target
Events ==
    {[tag |-> "none"], [tag |-> "event", hasTarget |-> FALSE, value |-> ""]}
    \cup {[tag |-> "event", hasTarget |-> TRUE, value |-> v] :
            v \in {""} \cup {selectMenu.options[k].value : k \in 1..Len(selectMenu.options)}}

\* the return of the handler, from refreshPosts' return on; the promise the
\* handler returns goes to the event dispatch, which drops it
Finish(r, doc) ==
    /\ main' = doc
    /\ selectMenu' = IF loc[r].hasTarget THEN [selectMenu EXCEPT !.disabled = FALSE]
                     ELSE selectMenu
    /\ pc' = [pc EXCEPT ![r] = "done"]
    /\ loc' = [loc EXCEPT ![r] = NoLocals]

\* an uncaught TypeError: createPosts, displayPosts, refreshPosts and the
\* handler reject in turn, and nothing after the throw runs
Reject(r) ==
    /\ pc' = [pc EXCEPT ![r] = "rejected"]
    /\ loc' = [loc EXCEPT ![r] = NoLocals]
    /\ UNCHANGED <<main, selectMenu>>

\* selectMenuChangeEventHandler up to its await of getUserPosts
Start(r, ev) ==
    /\ pc[r] = "idle"
    /\ IF r = 1 THEN TRUE ELSE pc[r - 1] # "idle"
    /\ IF ev.tag = "none"
       THEN /\ pc' = [pc EXCEPT ![r] = "done"]
            /\ UNCHANGED <<loc, selectMenu>>
       ELSE LET n == ParseInt(ev.value)
                userId == IF n.tag = "int" THEN n.val ELSE FallbackUserId
            IN /\ selectMenu' = IF ev.hasTarget THEN [selectMenu EXCEPT !.disabled = TRUE]
                                ELSE selectMenu
               /\ pc' = [pc EXCEPT ![r] = "awaitPosts"]
               /\ loc' = [loc EXCEPT ![r] =
                            [tag |-> "locals", hasTarget |-> ev.hasTarget, userId |-> userId,
                             posts |-> <<>>, i |-> 0, fragment |-> <<>>, article |-> Undefined]]
    /\ UNCHANGED <<pcInit, main, calls>>

\* getUserPosts resolves; refreshPosts runs up to createPosts' first await
PostsResolved(r, outcome) ==
    /\ pc[r] = "awaitPosts"
    /\ LET posts == getUserPosts(Value(loc[r].userId), outcome).ret IN
       IF ~Truthy(posts)
       THEN Finish(r, main)
       ELSE LET cleared == deleteChildElements(removeButtonListeners(main)) IN
            IF Len(posts.val) < 1
            THEN Finish(r, addButtonListeners(appendChild(cleared, <<DefaultText>>)))
            ELSE /\ main' = cleared
                 /\ pc' = [pc EXCEPT ![r] = "awaitAuthor"]
                 /\ loc' = [loc EXCEPT ![r].posts = posts.val, ![r].i = 1]
                 /\ UNCHANGED selectMenu
    /\ UNCHANGED <<pcInit, calls>>

\* getUser resolves in createPosts; the article is built up to the await
\* in displayComments
AuthorResolved(r, outcome) ==
    /\ pc[r] = "awaitAuthor"
    /\ LET post == loc[r].posts[loc[r].i]
           author == getUser(Value(post.userId), outcome).ret
       IN IF ~Truthy(author)
          THEN Reject(r)
          ELSE /\ pc' = [pc EXCEPT ![r] = "awaitComments"]
               /\ loc' = [loc EXCEPT ![r].article =
                            [NewArticle(r, post, author.val) EXCEPT !.section = NewSection(post.id)]]
               /\ UNCHANGED <<main, selectMenu>>
    /\ UNCHANGED <<pcInit, calls>>

\* getPostComments resolves in displayComments; the article is appended to
\* the fragment, and the loop goes on or the fragment is displayed
CommentsResolved(r, outcome) ==
    /\ pc[r] = "awaitComments"
    /\ LET post == loc[r].posts[loc[r].i]
           blocks == createComments(getPostComments(Value(post.id), outcome).ret)
       IN IF blocks = Undefined
          THEN Reject(r)
          ELSE LET article == [loc[r].article EXCEPT !.section.children = @ \o blocks.val]
                   fragment == appendChild(loc[r].fragment, <<article>>)
               IN IF loc[r].i < Len(loc[r].posts)
                  THEN /\ pc' = [pc EXCEPT ![r] = "awaitAuthor"]
                       /\ loc' = [loc EXCEPT ![r].fragment = fragment, ![r].i = @ + 1,
                                             ![r].article = Undefined]
                       /\ UNCHANGED <<main, selectMenu>>
                  ELSE Finish(r, addButtonListeners(appendChild(main, fragment)))
    /\ UNCHANGED <<pcInit, calls>>

\* a click on the button of the article at position i of <main>
Click(i) ==
    /\ i \in 1..Len(main)
    /\ IsArticle(main[i])
    /\ main' = Dispatch(main, i, main[i].button.listeners)
    /\ UNCHANGED <<pcInit, selectMenu, pc, loc, calls>>

(* ---------------------- direct calls of the API client ----------------- *)

PostIds == 1..(MaxUser * PostsPerUser)
Ids(S) == {Undefined} \cup {Value(x) : x \in S}

Record(fn, arg, outcome, res) ==
    /\ Len(calls) < MaxCalls
    /\ calls' = Append(calls, [fn |-> fn, arg |-> arg, outcome |-> outcome, res |-> res])
    /\ UNCHANGED <<pcInit, selectMenu, main, pc, loc>>

CallGetUsers(o) == Record("getUsers", Undefined, o, getUsers(o))
CallGetUserPosts(a, o) == Record("getUserPosts", a, o, getUserPosts(a, o))
CallGetUser(a, o) == Record("getUser", a, o, getUser(a, o))
CallGetPostComments(a, o) == Record("getPostComments", a, o, getPostComments(a, o))

Next ==
    \/ \E o \in Outcomes : InitPage(o)
    \/ \E r \in Runs : \E ev \in Events : Start(r, ev)
    \/ \E r \in Runs : \E o \in Outcomes : PostsResolved(r, o)
    \/ \E r \in Runs : \E o \in Outcomes : AuthorResolved(r, o)
    \/ \E r \in Runs : \E o \in Outcomes : CommentsResolved(r, o)
    \/ \E i \in DOMAIN main : Click(i)

Spec == Init /\ [][Next]_vars

NextFetch ==
    \/ \E o \in Outcomes : CallGetUsers(o)
    \/ \E a \in Ids(Users) : \E o \in Outcomes : CallGetUserPosts(a, o)
    \/ \E a \in Ids(Users) : \E o \in Outcomes : CallGetUser(a, o)
    \/ \E a \in Ids(PostIds) : \E o \in Outcomes : CallGetPostComments(a, o)

SpecFetch == Init /\ [][NextFetch]_vars

(* ------------------------------- properties --------------------------- *)

Articles(doc) == {i \in 1..Len(doc) : IsArticle(doc[i])}
Hidden(node) == "hide" \in node.section.classList
Done(r) == pc[r] = "done"
\* the step in which run r returns from the display of a non-empty post list
Displays(r) == pc[r] = "awaitComments" /\ pc'[r] = "done"

\* C1: once two calls of refreshPosts have completed, every post button
\* of the content area carries exactly one click listener, so one click
\* invokes toggleComments once
C1_OneListenerPerButton ==
    Cardinality({r \in Runs : Done(r)}) >= 2 =>
        \A i \in Articles(main) : main[i].button.listeners = 1

\* C2: no handler invocation rejects, whatever the outcomes of its fetches
C2_NoRejection == \A r \in Runs : pc[r] # "rejected"

\* the article createPosts is to build for a post: author and company name,
\* a 'Show Comments' button with the post id, a hidden section with the
\* post id and one block per comment of the post
RendersPost(node, post) ==
    /\ IsArticle(node)
    /\ node.pAuthor.textContent =
          <<"Author: ", ServerUser(post.userId).name, " with ",
            ServerUser(post.userId).company.name>>
    /\ node.button.textContent = "Show Comments"
    /\ node.button.postId = ToString(post.id)
    /\ node.section.postId = ToString(post.id)
    /\ Hidden(node)
    /\ Len(node.section.children) = Len(ServerComments(post.id))

\* the articles among the children of the content area, in document order
ArticlesOf(doc) == SelectSeq(doc, IsArticle)

\* C3: when a selection change completes with all fetches successful, the
\* articles of the content area are exactly one per post returned, in the
\* order returned, each rendering its post
C3_OneArticlePerPost ==
    [][\A r \in Runs : Displays(r) =>
          /\ Len(ArticlesOf(main')) = Len(loc[r].posts)
          /\ \A j \in 1..Len(loc[r].posts) :
                RendersPost(ArticlesOf(main')[j], loc[r].posts[j])]_vars

\* C4: every handler invocation that has ended has re-enabled the selector
\* it disabled: with no invocation in flight the selector is enabled
C4_ReEnabled == (\A r \in Runs : pc[r] \notin InFlight) => ~selectMenu.disabled

\* C5: for every post rendered in the content area, toggleComments applied
\* twice for its post id leaves every comment section's visibility and
\* every button's label as they were
C5_DoubleToggle ==
    \A i \in Articles(main) :
        LET p == Value(main[i].button.postId)
            twice == toggleComments(toggleComments(main, Value(i), p), Value(i), p)
        IN \A j \in Articles(main) :
              /\ Hidden(twice[j]) = Hidden(main[j])
              /\ twice[j].button.textContent = main[j].button.textContent
              /\ main[j].button.textContent \in {"Show Comments", "Hide Comments"}

\* a post whose comments are shown and whose button reads 'Hide Comments'
C5_Witness ==
    \E i \in Articles(main) :
        ~Hidden(main[i]) /\ main[i].button.textContent = "Hide Comments"

Payload(fn, arg) ==
    CASE fn = "getUsers" -> ServerUsers
      [] fn = "getUserPosts" -> ServerPosts(arg.val)
      [] fn = "getUser" -> ServerUser(arg.val)
      [] fn = "getPostComments" -> ServerComments(arg.val)

\* C6: a fetch function called without its identifier returns undefined and
\* issues no request; otherwise it issues one and returns the parsed payload
\* of a 2xx response, and null when the request fails or the response is not
\* successful; it never raises
C6_FetchResults ==
    \A k \in 1..Len(calls) :
        LET c == calls[k] IN
        /\ ~c.res.raised
        /\ IF c.fn # "getUsers" /\ c.arg = Undefined
           THEN c.res.ret = Undefined /\ ~c.res.requested
           ELSE /\ c.res.requested
                /\ c.outcome = "ok" => c.res.ret = Value(Payload(c.fn, c.arg))
                /\ c.outcome \in {"neterr", "non2xx"} => c.res.ret = Null

\* a call without identifier and a call answered by a non-2xx response
C6_Witness ==
    /\ \E k \in 1..Len(calls) : calls[k].fn # "getUsers" /\ calls[k].arg = Undefined
    /\ \E k \in 1..Len(calls) : calls[k].outcome = "non2xx" /\ calls[k].res.ret = Null

\* C7: a selection change that starts while an earlier one is in flight
\* leaves the earlier one as it is, and a handler that has built its
\* articles appends them to the content area after whatever is there, also
\* when a later selection change has started since
C7_NoCancellation ==
    [][\A r \in Runs :
          /\ (pc[r] \in InFlight /\ \E s \in Runs : s # r /\ pc[s] = "idle" /\ pc'[s] # "idle")
                => (pc'[r] = pc[r] /\ loc'[r] = loc[r])
          /\ Displays(r) =>
                /\ Len(main') = Len(main) + Len(loc[r].posts)
                /\ \A j \in 1..Len(main) : IsArticle(main[j]) =>
                      (j <= Len(main') /\ IsArticle(main'[j]) /\ main'[j].owner = main[j].owner)
                /\ \A j \in (Len(main) + 1)..Len(main') : main'[j].owner = r]_vars

\* both selection changes have completed and the content area holds the
\* articles of both
C7_Witness ==
    /\ MaxRuns >= 2
    /\ Done(1) /\ Done(2)
    /\ \E i \in Articles(main) : main[i].owner = 1
    /\ \E i \in Articles(main) : main[i].owner = 2

\* the node at position i is the same article before and after the step
SameNode(i) ==
    /\ i <= Len(main) /\ IsArticle(main[i])
    /\ main[i].owner = main'[i].owner
    /\ main[i].section.postId = main'[i].section.postId

\* C8: a comment block is hidden when its article is built and when it
\* enters the content area, and its visibility changes only in a click on
\* a button of the same post
C8_ToggledOnlyByOwnButton ==
    [][/\ \A r \in Runs : loc'[r] # NoLocals =>
             \A j \in 1..Len(loc'[r].fragment) : Hidden(loc'[r].fragment[j])
       /\ \A i \in Articles(main') :
             IF SameNode(i)
             THEN Hidden(main'[i]) # Hidden(main[i]) =>
                     \E k \in Articles(main) :
                         Click(k) /\ main[k].button.postId = main[i].section.postId
             ELSE Hidden(main'[i])]_vars

\* one post's comments are shown while another post's are hidden
C8_Witness ==
    \E i, j \in Articles(main) :
        /\ main[i].section.postId # main[j].section.postId
        /\ ~Hidden(main[i]) /\ Hidden(main[j])

\* C9: a selection change removes the previous children of the content
\* area before it appends: when it has appended the placeholder, that is
\* the only child, and when it has appended its articles, they are the only
\* children
C9_OldChildrenRemoved ==
    [][\A r \in Runs :
          /\ Displays(r) =>
                /\ Len(main') = Len(loc[r].posts)
                /\ \A j \in Articles(main') : main'[j].owner = r
          /\ (pc[r] = "awaitPosts" /\ pc'[r] = "done" /\ main' # main) =>
                main' = <<DefaultText>>]_vars

\* C10: while a handler builds its articles, the fragment holds the
\* finished articles of the posts before the current one, in the order of
\* the post list, and the content area holds none of them; the articles of
\* one handler are in the content area all together, as one complete post
\* list in order
C10_RenderOrder ==
    \A r \in Runs :
        LET mine == {i \in Articles(main) : main[i].owner = r} IN
        /\ pc[r] \in {"awaitAuthor", "awaitComments"} =>
              /\ mine = {}
              /\ Len(loc[r].fragment) = loc[r].i - 1
              /\ \A j \in 1..Len(loc[r].fragment) :
                    RendersPost(loc[r].fragment[j], loc[r].posts[j])
              /\ loc[r].i \in 1..Len(loc[r].posts)
        /\ pc[r] \in {"idle", "awaitPosts"} => mine = {}
        /\ mine # {} =>
              \E u \in Users : \E b \in 0..Len(main) :
                  /\ mine = (b + 1)..(b + NumPosts(u))
                  /\ \A j \in 1..NumPosts(u) :
                        main[b + j].button.postId = ToString(PostId(u, j))

\* a handler waits for the comments of its second post
C10_Witness ==
    \E r \in Runs :
        pc[r] = "awaitComments" /\ loc[r].i = 2 /\ Len(loc[r].fragment) = 1

====
